---- MODULE Spec2Model ----
(***************************************************************************)
(* Model of optimalbinning.Binning (binning.py): the Shimazaki-Shinomoto    *)
(* optimal bin width search.                                                *)
(*                                                                          *)
(* Real numbers are exact rationals <<n, d>> in lowest terms with d > 0;    *)
(* numpy.PINF and numpy.NINF are <<1, 0>> and <<-1, 0>>.  Python's None is  *)
(* the integer -1 where the field otherwise holds a non-negative integer.   *)
(* Sample values are integers.                                              *)
(***************************************************************************)
EXTENDS Integers, Sequences, FiniteSets, TLC

\* ---------------------------------------------------------------- bounds
MaxVal == 3
MaxLen == 4
MaxBinArg == 4
MaxCalls == 1
MaxReuse == 2
MaxBoundary == 3

\* ------------------------------------------------------------ arithmetic
None == -1
PINF == <<1, 0>>
NINF == <<-1, 0>>

Abs(a) == IF a < 0 THEN -a ELSE a

RECURSIVE Gcd(_, _)
Gcd(a, b) == IF b = 0 THEN a ELSE Gcd(b, a % b)

Rat(n, d) ==
    LET g == Gcd(Abs(n), Abs(d))
        s == IF d < 0 THEN -1 ELSE 1
    IN  <<(s * n) \div g, (s * d) \div g>>

Q(k) == <<k, 1>>
RAdd(x, y) == Rat(x[1] * y[2] + y[1] * x[2], x[2] * y[2])
RSub(x, y) == Rat(x[1] * y[2] - y[1] * x[2], x[2] * y[2])
RMul(x, y) == Rat(x[1] * y[1], x[2] * y[2])
RDiv(x, y) == Rat(x[1] * y[2], x[2] * y[1])
RLess(x, y) == x[1] * y[2] < y[1] * x[2]
RLeq(x, y) == x[1] * y[2] <= y[1] * x[2]

Floor(x) == x[1] \div x[2]
Ceil(x) == -((-x[1]) \div x[2])

\* numpy.round: to the nearest integer, halves to the even neighbour
Round(x) ==
    LET f == Floor(x)
        r == 2 * (x[1] - f * x[2])
    IN  IF r < x[2] THEN f
        ELSE IF r > x[2] THEN f + 1
        ELSE IF f % 2 = 0 THEN f ELSE f + 1

RECURSIVE Pow10(_)
Pow10(e) ==
    IF e = 0 THEN Q(1)
    ELSE IF e > 0 THEN RMul(Q(10), Pow10(e - 1))
    ELSE RDiv(Pow10(e + 1), Q(10))

\* math.floor(math.log10(x)) and math.ceil(math.log10(x)) for x > 0
RECURSIVE FloorLog10(_)
FloorLog10(x) ==
    IF RLess(x, Q(1)) THEN FloorLog10(RMul(x, Q(10))) - 1
    ELSE IF RLess(x, Q(10)) THEN 0
    ELSE FloorLog10(RDiv(x, Q(10))) + 1

CeilLog10(x) ==
    LET f == FloorLog10(x)
    IN  IF Pow10(f) = x THEN f ELSE f + 1

\* ----------------------------------------------------------------- state
VARIABLES
    bin_width_candidate, list_criterion, list_n_bin, list_bin_boundary,
    max_n_bin, min_n_bin, optimal_criterion, optimal_position,
    pc, data, n_x, min_x, max_x, mean_x, min_bin_width, max_bin_width,
    sequence, bin_width, n_candidates, bin_lower_boundary, bin_details,
    ret, n_calls

fields == <<bin_width_candidate, list_criterion, list_n_bin, list_bin_boundary,
            max_n_bin, min_n_bin, optimal_criterion, optimal_position>>
locals == <<data, n_x, min_x, max_x, mean_x, min_bin_width, max_bin_width,
            sequence, bin_width, n_candidates, bin_lower_boundary, bin_details>>
vars == <<fields, locals, pc, ret, n_calls>>

\* ----------------------------------------------------------- bin_frequency
\* the inner for-loop: the first i in range(n_bin-1), from i on, with
\* u < bin_lower_boundary[i+1]; n_bin-1 when the loop finds none (0-based)
RECURSIVE scan_bin(_, _, _)
scan_bin(u, lower, i) ==
    IF i >= Len(lower) - 1 THEN Len(lower) - 1
    ELSE IF RLess(Q(u), lower[i + 2]) THEN i
    ELSE scan_bin(u, lower, i + 1)

\* the outer for-loop over data, adding 1.0 to the frequency of the bin found
RECURSIVE count_frequency(_, _, _)
count_frequency(d, lower, freq) ==
    IF d = <<>> THEN freq
    ELSE LET b == scan_bin(Head(d), lower, 0) + 1
         IN  count_frequency(Tail(d), lower, [freq EXCEPT ![b] = @ + 1])

\* bin_frequency without lines 76-77: a value no boundary exceeds is not counted
bin_frequency_unfound_dropped(d, lower) ==
    LET n_bin == Len(lower)
        upper == [i \in 1..n_bin |-> IF i = n_bin THEN PINF ELSE lower[i + 1]]
        zeros == [i \in 1..n_bin |-> 0]
    IN  IF n_bin >= 2
        THEN LET freq == count_frequency(d, lower, zeros)
             IN  [exc |-> "",
                  details |-> [i \in 1..n_bin |->
                      [LOWER_CLOSE |-> lower[i], UPPER_OPEN |-> upper[i],
                       FREQUENCY |-> IF i = n_bin THEN 0 ELSE freq[i]]]]
        ELSE IF n_bin = 1
        THEN [exc |-> "AttributeError", details |-> <<>>]
        ELSE [exc |-> "IndexError", details |-> <<>>]

bin_frequency(d, lower) ==
    LET n_bin == Len(lower)
        upper == [i \in 1..n_bin |-> IF i = n_bin THEN PINF ELSE lower[i + 1]]
        zeros == [i \in 1..n_bin |-> 0]
    IN  IF n_bin >= 2
        THEN LET freq == count_frequency(d, lower, zeros)
             IN  [exc |-> "",
                  details |-> [i \in 1..n_bin |->
                      [LOWER_CLOSE |-> lower[i], UPPER_OPEN |-> upper[i],
                       FREQUENCY |-> freq[i]]]]
        ELSE IF n_bin = 1
        THEN [exc |-> "AttributeError", details |-> <<>>]
        ELSE [exc |-> "IndexError", details |-> <<>>]

\* ------------------------------------------------- optimal_binning: statistics
\* the loop of lines 117-123 over the rest d of the sample; sum is _mean_x
\* before the division
RECURSIVE statistics_loop(_, _)
statistics_loop(d, acc) ==
    IF d = <<>> THEN acc
    ELSE LET u == Head(d)
         IN  statistics_loop(Tail(d),
                 [n_x |-> acc.n_x + 1,
                  sum |-> acc.sum + u,
                  max_x |-> IF RLess(acc.max_x, Q(u)) THEN Q(u) ELSE acc.max_x,
                  min_x |-> IF RLess(Q(u), acc.min_x) THEN Q(u) ELSE acc.min_x])

statistics(d) ==
    statistics_loop(d, [n_x |-> 0, sum |-> 0, max_x |-> NINF, min_x |-> PINF])

\* ----------------------------------------- optimal_binning: bin-count limits
default_min_n_bin(arg) == IF arg = None THEN 2 ELSE arg
default_max_n_bin(arg, n) == IF arg = None THEN n \div 2 ELSE arg

\* lines 142-145: u keeps max_n_bin, max_n_bin takes min_n_bin and is then
\* assigned u again; min_n_bin is never assigned
swap_limits(lo, hi) ==
    IF hi < lo
    THEN LET u == hi
             hi1 == lo
             hi2 == u
         IN  [min_n_bin |-> lo, max_n_bin |-> hi2]
    ELSE [min_n_bin |-> lo, max_n_bin |-> hi]

\* ------------------------------------------- optimal_binning: search range
first_bin_width(range, hi) == Pow10(FloorLog10(RDiv(range, Q(hi))))
last_bin_width(range, lo) == Pow10(CeilLog10(RDiv(range, Q(lo))))

\* lines 109-151: what a call computes before it touches the lists
prepare(d, min_arg, max_arg) ==
    LET st == statistics(d)
        lim == swap_limits(default_min_n_bin(min_arg),
                           default_max_n_bin(max_arg, st.n_x))
        range == RSub(st.max_x, st.min_x)
        ok == st.n_x > 0 /\ RLess(Q(0), range)
    IN  [data |-> d,
         n_x |-> st.n_x,
         min_x |-> st.min_x,
         max_x |-> st.max_x,
         mean_x |-> IF st.n_x > 0 THEN Rat(st.sum, st.n_x) ELSE Q(0),
         range_positive |-> ok,
         min_n_bin |-> lim.min_n_bin,
         max_n_bin |-> lim.max_n_bin,
         min_bin_width |-> IF ok THEN first_bin_width(range, lim.max_n_bin) ELSE Q(0),
         max_bin_width |-> IF ok THEN last_bin_width(range, lim.min_n_bin) ELSE Q(0)]

\* ------------------------------------------ optimal_binning: one candidate
middle_x(mean, bw) == RMul(bw, Q(Round(RDiv(mean, bw))))
n_bin_left(mid, lowest_x, bw) == Ceil(RDiv(RSub(mid, lowest_x), bw))
n_bin_right(mid, highest_x, bw) == Ceil(RDiv(RSub(highest_x, mid), bw))
\* low_x one bin too far to the left
low_x_shifted(mid, n_left, bw) == RSub(mid, RMul(Q(n_left), bw))

low_x(mid, n_left, bw) == RSub(mid, RMul(Q(n_left - 1), bw))

\* the limits test without its upper half
within_limits_no_upper(n, lo, hi) == lo <= n

within_limits(n, lo, hi) == lo <= n /\ n <= hi

make_lower_boundary(n, low, bw) ==
    [k \in 1..n |->
        IF k = 1 THEN NINF
        ELSE IF n > 2 THEN RAdd(low, RMul(bw, Q(k - 2)))
        ELSE low]

\* lines 164-177 for the width bw: the grid of one candidate
grid(mean, lowest_x, highest_x, bw) ==
    LET mid == middle_x(mean, bw)
        n_left == n_bin_left(mid, lowest_x, bw)
        n_right == n_bin_right(mid, highest_x, bw)
    IN  [middle_x |-> mid,
         n_bin_left |-> n_left,
         n_bin_right |-> n_right,
         n_bin |-> n_left + n_right,
         low_x |-> low_x(mid, n_left, bw)]

RECURSIVE sum_sq_dev(_, _, _)
sum_sq_dev(details, mean, i) ==
    IF i > Len(details) THEN Q(0)
    ELSE LET dev == RSub(Q(details[i].FREQUENCY), mean)
         IN  RAdd(RMul(dev, dev), sum_sq_dev(details, mean, i + 1))

criterion_of(n, bw, details) ==
    LET n_bin == Len(details)
        mean_bin_freq == Rat(n, n_bin)
        var_bin_freq == RDiv(sum_sq_dev(details, mean_bin_freq, 1), Q(n_bin))
    IN  RDiv(RDiv(RSub(RMul(Q(2), mean_bin_freq), var_bin_freq), bw), bw)

\* --------------------------------------------- optimal_binning: progression
\* the 1.25 step taken one pass later
next_bin_width_late(bw, seq) ==
    IF seq = 2 THEN RMul(Rat(5, 4), bw) ELSE RMul(Q(2), bw)

next_bin_width(bw, seq) ==
    IF seq = 1 THEN RMul(Rat(5, 4), bw) ELSE RMul(Q(2), bw)

next_sequence(seq) == IF seq + 1 = 4 THEN 0 ELSE seq + 1

loop_continues(bw, last) == RLeq(bw, last)

\* ------------------------------------------------ optimal_binning: selection
RECURSIVE scan_lowest(_, _, _)
scan_lowest(crit, i, best) ==
    IF i >= Len(crit) THEN best
    ELSE IF RLess(crit[i + 1], best.lowest_criterion)
         THEN scan_lowest(crit, i + 1,
                          [lowest_criterion |-> crit[i + 1], lowest_position |-> i])
         ELSE scan_lowest(crit, i + 1, best)

\* the selection with <= in place of <: the last of equal criteria wins
RECURSIVE scan_lowest_or_equal(_, _, _)
scan_lowest_or_equal(crit, i, best) ==
    IF i >= Len(crit) THEN best
    ELSE IF RLeq(crit[i + 1], best.lowest_criterion)
         THEN scan_lowest_or_equal(crit, i + 1,
                  [lowest_criterion |-> crit[i + 1], lowest_position |-> i])
         ELSE scan_lowest_or_equal(crit, i + 1, best)

lowest_or_equal(crit) ==
    scan_lowest_or_equal(crit, 0,
                         [lowest_criterion |-> PINF, lowest_position |-> None])

lowest(crit) ==
    scan_lowest(crit, 0, [lowest_criterion |-> PINF, lowest_position |-> None])

\* ----------------------------------------------------------------- accessors
get_optimal_boundary ==
    IF optimal_position # None
    THEN IF optimal_position < Len(list_bin_boundary)
         THEN [exc |-> "", none |-> FALSE,
               val |-> list_bin_boundary[optimal_position + 1]]
         ELSE [exc |-> "IndexError", none |-> FALSE, val |-> <<>>]
    ELSE [exc |-> "", none |-> TRUE, val |-> <<>>]

get_optimal_nbin ==
    IF optimal_position # None
    THEN IF optimal_position < Len(list_n_bin)
         THEN [exc |-> "", val |-> list_n_bin[optimal_position + 1]]
         ELSE [exc |-> "IndexError", val |-> None]
    ELSE [exc |-> "", val |-> 0]

get_optimal_width ==
    IF optimal_position # None
    THEN IF optimal_position < Len(bin_width_candidate)
         THEN [exc |-> "", none |-> FALSE,
               val |-> bin_width_candidate[optimal_position + 1]]
         ELSE [exc |-> "IndexError", none |-> FALSE, val |-> Q(0)]
    ELSE [exc |-> "", none |-> TRUE, val |-> Q(0)]

\* -------------------------------------------------------------------- inputs
\* Every quantity the code derives from the sample is a sum, a minimum, a
\* maximum or a count over it, so the samples are taken in nondecreasing order.
Samples ==
    {s \in UNION {[1..n -> 0..MaxVal] : n \in 0..MaxLen} :
        \A i \in 1..(Len(s) - 1) : s[i] <= s[i + 1]}

\* min_n_bin and max_n_bin as the caller gives them: None or a positive count
BinArgs == {None} \cup (1..MaxBinArg)

Calls ==
    {prepare(d, min_arg, max_arg) :
        d \in Samples, min_arg \in BinArgs, max_arg \in BinArgs}

\* ------------------------------------------------------------------- actions
NoLocals ==
    /\ data' = <<>>
    /\ n_x' = 0
    /\ min_x' = PINF
    /\ max_x' = NINF
    /\ mean_x' = Q(0)
    /\ min_bin_width' = Q(0)
    /\ max_bin_width' = Q(0)
    /\ sequence' = 0
    /\ bin_width' = Q(0)
    /\ n_candidates' = 0
    /\ bin_lower_boundary' = <<>>
    /\ bin_details' = <<>>

InitFields ==
    /\ bin_width_candidate = <<>>
    /\ list_criterion = <<>>
    /\ list_n_bin = <<>>
    /\ list_bin_boundary = <<>>
    /\ max_n_bin = None
    /\ min_n_bin = None
    /\ optimal_criterion = PINF
    /\ optimal_position = None

Init ==
    /\ InitFields
    /\ pc = "idle"
    /\ data = <<>>
    /\ n_x = 0
    /\ min_x = PINF
    /\ max_x = NINF
    /\ mean_x = Q(0)
    /\ min_bin_width = Q(0)
    /\ max_bin_width = Q(0)
    /\ sequence = 0
    /\ bin_width = Q(0)
    /\ n_candidates = 0
    /\ bin_lower_boundary = <<>>
    /\ bin_details = <<>>
    /\ ret = [exc |-> "", val |-> None]
    /\ n_calls = 0

\* lines 109-160: statistics, limits, the two raises, the reset of the lists
optimal_binning(call) ==
    /\ pc = "idle"
    /\ IF call.n_x = 0
       THEN /\ ret' = [exc |-> "ValueError: The input data array is empty",
                       val |-> None]
            /\ UNCHANGED <<fields, locals, pc>>
       ELSE /\ min_n_bin' = call.min_n_bin
            /\ max_n_bin' = call.max_n_bin
            /\ IF call.range_positive
               THEN /\ bin_width_candidate' = <<>>
                    /\ list_criterion' = <<>>
                    /\ list_n_bin' = <<>>
                    /\ list_bin_boundary' = <<>>
                    /\ data' = call.data
                    /\ n_x' = call.n_x
                    /\ min_x' = call.min_x
                    /\ max_x' = call.max_x
                    /\ mean_x' = call.mean_x
                    /\ min_bin_width' = call.min_bin_width
                    /\ max_bin_width' = call.max_bin_width
                    /\ sequence' = 0
                    /\ bin_width' = call.min_bin_width
                    /\ n_candidates' = 0
                    /\ pc' = "sweep"
                    /\ ret' = [exc |-> "", val |-> None]
                    /\ UNCHANGED <<optimal_criterion, optimal_position,
                                   bin_lower_boundary, bin_details>>
               ELSE /\ ret' = [exc |-> "ValueError: The minimum value equals the maximum value",
                               val |-> None]
                    /\ UNCHANGED <<bin_width_candidate, list_criterion, list_n_bin,
                                   list_bin_boundary, optimal_criterion,
                                   optimal_position, locals, pc>>

\* lines 161-205: one pass of the while loop
sweep_iteration ==
    /\ pc = "sweep"
    /\ loop_continues(bin_width, max_bin_width)
    /\ LET g == grid(mean_x, min_x, max_x, bin_width)
           lower == make_lower_boundary(g.n_bin, g.low_x, bin_width)
           got == bin_frequency(data, lower)
       IN  IF within_limits(g.n_bin, min_n_bin, max_n_bin)
           THEN IF got.exc # ""
                THEN /\ ret' = [exc |-> got.exc, val |-> None]
                     /\ pc' = "idle"
                     /\ NoLocals
                     /\ UNCHANGED fields
                ELSE /\ n_candidates' = n_candidates + 1
                     /\ bin_width_candidate' = Append(bin_width_candidate, bin_width)
                     /\ list_criterion' =
                            Append(list_criterion,
                                   criterion_of(n_x, bin_width, got.details))
                     /\ list_n_bin' = Append(list_n_bin, g.n_bin)
                     /\ list_bin_boundary' = Append(list_bin_boundary, got.details)
                     /\ bin_lower_boundary' = lower
                     /\ bin_details' = <<>>
                     /\ bin_width' = next_bin_width(bin_width, sequence)
                     /\ sequence' = next_sequence(sequence)
                     /\ UNCHANGED <<max_n_bin, min_n_bin, optimal_criterion,
                                    optimal_position, data, n_x, min_x, max_x,
                                    mean_x, min_bin_width, max_bin_width, pc, ret>>
           ELSE /\ bin_width' = next_bin_width(bin_width, sequence)
                /\ sequence' = next_sequence(sequence)
                /\ UNCHANGED <<fields, data, n_x, min_x, max_x, mean_x,
                               min_bin_width, max_bin_width, n_candidates,
                               bin_lower_boundary, bin_details, pc, ret>>

\* lines 207-223: the loop has ended; selection of the optimum and return
select_optimum ==
    /\ pc = "sweep"
    /\ ~loop_continues(bin_width, max_bin_width)
    /\ LET best == lowest(list_criterion)
       IN  IF best.lowest_position # None
           THEN /\ optimal_criterion' = best.lowest_criterion
                /\ optimal_position' = best.lowest_position
           ELSE UNCHANGED <<optimal_criterion, optimal_position>>
    /\ ret' = [exc |-> "", val |-> n_candidates]
    /\ pc' = "idle"
    /\ NoLocals
    /\ UNCHANGED <<bin_width_candidate, list_criterion, list_n_bin,
                   list_bin_boundary, max_n_bin, min_n_bin>>

\* one binner, used for at most MaxCalls runs
Next ==
    \/ /\ n_calls < MaxCalls
       /\ \E call \in Calls : optimal_binning(call)
       /\ n_calls' = n_calls + 1
    \/ sweep_iteration /\ UNCHANGED n_calls
    \/ select_optimum /\ UNCHANGED n_calls

Spec == Init /\ [][Next]_vars

\* one binner, reused: up to MaxReuse runs on the same instance
NextReuse ==
    \/ /\ n_calls < MaxReuse
       /\ \E call \in Calls : optimal_binning(call)
       /\ n_calls' = n_calls + 1
    \/ sweep_iteration /\ UNCHANGED n_calls
    \/ select_optimum /\ UNCHANGED n_calls

SpecReuse == Init /\ [][NextReuse]_vars

\* bin_frequency alone, on any sample and any increasing lower boundaries
Boundaries ==
    {b \in UNION {[1..n -> 0..MaxBoundary] : n \in 1..(MaxBoundary + 1)} :
        \A i \in 2..(Len(b) - 1) : b[i] < b[i + 1]}

lower_of(b) == [i \in 1..Len(b) |-> IF i = 1 THEN NINF ELSE Q(b[i])]

InitBinFrequency ==
    /\ InitFields
    /\ pc = "bin_frequency"
    /\ data \in Samples
    /\ Len(data) > 0
    /\ n_x = 0
    /\ min_x = PINF
    /\ max_x = NINF
    /\ mean_x = Q(0)
    /\ min_bin_width = Q(0)
    /\ max_bin_width = Q(0)
    /\ sequence = 0
    /\ bin_width = Q(0)
    /\ n_candidates = 0
    /\ bin_lower_boundary \in {lower_of(b) : b \in Boundaries}
    /\ bin_details = <<>>
    /\ ret = [exc |-> "", val |-> None]
    /\ n_calls = 0

call_bin_frequency ==
    /\ pc = "bin_frequency"
    /\ LET got == bin_frequency(data, bin_lower_boundary)
       IN  /\ bin_details' = got.details
           /\ ret' = [exc |-> got.exc, val |-> None]
    /\ pc' = "returned"
    /\ UNCHANGED <<fields, data, n_x, min_x, max_x, mean_x, min_bin_width,
                   max_bin_width, sequence, bin_width, n_candidates,
                   bin_lower_boundary, n_calls>>

SpecBinFrequency == InitBinFrequency /\ [][call_bin_frequency]_vars

\* ================================================================ properties
ValueErrors ==
    {"ValueError: The input data array is empty",
     "ValueError: The minimum value equals the maximum value"}

returned_normally == pc = "idle" /\ n_calls > 0 /\ ret.exc = ""

RECURSIVE sum_frequency(_, _)
sum_frequency(details, i) ==
    IF i > Len(details) THEN 0
    ELSE details[i].FREQUENCY + sum_frequency(details, i + 1)

\* the number of sample values v with lo <= v < hi
in_interval(d, lo, hi) ==
    Cardinality({k \in 1..Len(d) : RLeq(lo, Q(d[k])) /\ RLess(Q(d[k]), hi)})

\* C1: after a run that returned normally with zero candidates, the three
\* accessors of the optimum answer "none" (None, None, 0) and do not fail.
C1_NoneAfterEmptyRun ==
    (pc = "idle" /\ ret.exc = "" /\ ret.val = 0) =>
        /\ get_optimal_boundary.exc = "" /\ get_optimal_boundary.none
        /\ get_optimal_width.exc = "" /\ get_optimal_width.none
        /\ get_optimal_nbin.exc = "" /\ get_optimal_nbin.val = 0

\* C2: the limits the sweep works with are ordered, min_n_bin <= max_n_bin,
\* because limits given in the wrong order have been swapped.
C2_LimitsOrdered == pc = "sweep" => min_n_bin <= max_n_bin

\* C3: a call that raises one of the two ValueErrors leaves every field of
\* the binner (candidate lists, optimum, limits) as it was before the call.
C3_FailedCallKeepsFields ==
    [][(pc = "idle" /\ ret'.exc \in ValueErrors) => fields' = fields]_vars

\* C4: a width within the limits whose n_bin is 1 is recorded with one bin
\* from -infinity to +infinity holding the whole sample.
C4_SingleBinRecorded ==
    [][(/\ pc = "sweep"
        /\ loop_continues(bin_width, max_bin_width)
        /\ grid(mean_x, min_x, max_x, bin_width).n_bin = 1
        /\ within_limits(1, min_n_bin, max_n_bin))
       => list_bin_boundary' =
              Append(list_bin_boundary,
                     <<[LOWER_CLOSE |-> NINF, UPPER_OPEN |-> PINF,
                        FREQUENCY |-> n_x]>>)]_vars

\* C5: in every recorded layout the frequencies add up to the sample size.
C5_FrequenciesSumToSampleSize ==
    pc = "sweep" =>
        \A i \in 1..Len(list_bin_boundary) :
            sum_frequency(list_bin_boundary[i], 1) = n_x

C5_Witness ==
    /\ pc = "sweep"
    /\ n_x >= 3
    /\ Len(list_bin_boundary) >= 2
    /\ \E i \in 1..Len(list_bin_boundary) :
           /\ Len(list_bin_boundary[i]) >= 3
           /\ list_bin_boundary[i][2].FREQUENCY >= 1

\* C6: after a normal return with at least one candidate, the optimum is the
\* recorded candidate of minimum criterion, and among candidates of that
\* criterion the first recorded one, which has the smallest bin width.
C6_OptimumIsFirstMinimum ==
    (returned_normally /\ ret.val >= 1) =>
        /\ ret.val = Len(list_criterion)
        /\ optimal_position \in 0..(Len(list_criterion) - 1)
        /\ optimal_criterion = list_criterion[optimal_position + 1]
        /\ \A j \in 1..Len(list_criterion) :
               /\ RLeq(optimal_criterion, list_criterion[j])
               /\ j < optimal_position + 1 =>
                      RLess(optimal_criterion, list_criterion[j])
               /\ list_criterion[j] = optimal_criterion =>
                      RLeq(bin_width_candidate[optimal_position + 1],
                           bin_width_candidate[j])

C6_Witness ==
    /\ returned_normally
    /\ ret.val >= 2
    /\ \E j \in 1..Len(list_criterion) :
           /\ j > optimal_position + 1
           /\ list_criterion[j] = optimal_criterion

\* C7: the widths of one cycle of four, as multiples of the width the cycle
\* starts with
StatedMultiples == <<Q(1), Q(2), Q(4), Q(5)>>
CodeMultiples == <<Q(1), Q(2), Rat(5, 2), Q(5)>>
CodeMultipliers == <<Q(2), Rat(5, 4), Q(2), Q(2)>>

on_progression(multiples) ==
    pc = "sweep" =>
        LET k == FloorLog10(RDiv(bin_width, min_bin_width))
        IN  /\ k >= 0
            /\ bin_width =
                   RMul(RMul(min_bin_width, Pow10(k)), multiples[sequence + 1])

previous_bin_width ==
    RDiv(bin_width, CodeMultipliers[((sequence + 3) % 4) + 1])

\* C7 as stated: multipliers 2.0, 2.0, 1.25, 2.0, hence the widths x1, x2,
\* x4, x5 of the start of the cycle.
C7_StatedProgression == on_progression(StatedMultiples)

\* C7 as the code has it: the sweep starts at min_bin_width; each pass multiplies the
\* width by 2.0, 1.25, 2.0, 2.0 in turn, hence the widths x1, x2, x2.5, x5 of
\* the start of the cycle and x10 for the next cycle; the loop is left for the
\* selection at the first width greater than max_bin_width.
C7_Progression ==
    /\ [](on_progression(CodeMultiples))
    /\ [][(pc = "idle" /\ pc' = "sweep") =>
              (bin_width' = min_bin_width' /\ sequence' = 0)]_vars
    /\ [][(pc = "sweep" /\ pc' = "sweep") =>
              /\ loop_continues(bin_width, max_bin_width)
              /\ bin_width' = RMul(CodeMultipliers[sequence + 1], bin_width)
              /\ sequence' = (sequence + 1) % 4]_vars
    /\ [][(pc = "sweep" /\ pc' = "idle" /\ ret'.exc = "") =>
              /\ RLess(max_bin_width, bin_width)
              /\ \/ bin_width = min_bin_width
                 \/ RLeq(previous_bin_width, max_bin_width)]_vars

C7_Witness ==
    /\ pc = "sweep"
    /\ ~loop_continues(bin_width, max_bin_width)
    /\ sequence = 1
    /\ bin_width = RMul(Q(20), min_bin_width)
    /\ n_candidates >= 1

\* C8: bin_frequency returns, for each bin, the number of sample values in
\* [LOWER_CLOSE, UPPER_OPEN), the first bin starting at -infinity and the last
\* ending at +infinity.
C8_LeftClosedRightOpen ==
    pc = "returned" =>
        /\ ret.exc = ""
        /\ Len(bin_details) = Len(bin_lower_boundary)
        /\ \A i \in 1..Len(bin_details) :
               /\ bin_details[i].LOWER_CLOSE = bin_lower_boundary[i]
               /\ bin_details[i].UPPER_OPEN =
                      IF i = Len(bin_details) THEN PINF
                      ELSE bin_lower_boundary[i + 1]
               /\ bin_details[i].FREQUENCY =
                      in_interval(data, bin_details[i].LOWER_CLOSE,
                                  bin_details[i].UPPER_OPEN)

\* C9: every recorded candidate has min_n_bin <= n_bin <= max_n_bin for the
\* limits of the run; a width whose n_bin is outside the limits records
\* nothing and the sweep goes on to the next width.
C9_RecordedWithinLimits ==
    /\ [](pc = "sweep" =>
              /\ Len(list_n_bin) = n_candidates
              /\ \A i \in 1..Len(list_n_bin) :
                     /\ min_n_bin <= list_n_bin[i]
                     /\ list_n_bin[i] <= max_n_bin
                     /\ Len(list_bin_boundary[i]) = list_n_bin[i])
    /\ [][(/\ pc = "sweep"
           /\ loop_continues(bin_width, max_bin_width)
           /\ \/ grid(mean_x, min_x, max_x, bin_width).n_bin < min_n_bin
              \/ grid(mean_x, min_x, max_x, bin_width).n_bin > max_n_bin)
          => /\ UNCHANGED <<fields, n_candidates>>
             /\ pc' = "sweep"
             /\ RLess(bin_width, bin_width')]_vars

C9_Witness ==
    /\ pc = "sweep"
    /\ ~loop_continues(bin_width, max_bin_width)
    /\ min_n_bin < max_n_bin
    /\ bin_width = RMul(Q(20), min_bin_width)
    /\ n_candidates \in 2..4
    /\ \E i \in 1..Len(list_n_bin) : list_n_bin[i] = max_n_bin

====
